---------------------------- MODULE Spec2Model ----------------------------
(***************************************************************************)
(* Model of src/index.tsx: the trending-news widget.                       *)
(*                                                                         *)
(* A JavaScript string is modelled as a sequence of one-character strings. *)
(* The DOM is modelled by the class flags the code toggles (hidden), the   *)
(* two style properties it sets on the feature card, and the markup it     *)
(* writes into the results container.                                      *)
(***************************************************************************)
EXTENDS Integers, Sequences, FiniteSets, TLC

VARIABLES
    ai,            \* TRUE iff `new GoogleGenAI(...)` returned (line 19)
    pointerEvents, \* latestNewsCard.style.pointerEvents
    opacity,       \* latestNewsCard.style.opacity
    homeHidden,    \* homeSection.classList has 'hidden'
    newsHidden,    \* newsSection.classList has 'hidden'
    loaderHidden,  \* loader.classList has 'hidden'
    newsResults,   \* children of the results container, in document order
    inFlight,      \* fetchAndDisplayNews calls suspended at the await (line 43)
    calls,         \* history: ai.models.generateContent calls issued so far
    activations,   \* history: showNewsView calls so far
    settledSince,  \* history: a suspended call has resumed since the last showNewsView
    overlapped,    \* history: a call was started while another was suspended
    returned,      \* history: what the fetchAndDisplayNews call that returned in this step received
    unsafe,        \* argument of the escapeHtml call under test
    escaped        \* its result, once the call has been made

vars == << ai, pointerEvents, opacity, homeHidden, newsHidden, loaderHidden,
           newsResults, inFlight, calls, activations, settledSince, overlapped,
           returned, unsafe, escaped >>

(***************************************************************************)
(* Bounds of the model.                                                    *)
(***************************************************************************)
\* news activations in one run
MaxActivations == 3
\* records in a generated JSON array
MaxArticles == 2
\* characters in a generated free-text response
MaxProse == 3
\* characters in an escapeHtml argument
MaxEscLen == 3

(***************************************************************************)
(* Strings.                                                                *)
(***************************************************************************)
Q == "\""
BS == "\\"
NL == "\n"

AMP == << "&", "a", "m", "p", ";" >>
LT == << "&", "l", "t", ";" >>
GT == << "&", "g", "t", ";" >>
QUOT == << "&", "q", "u", "o", "t", ";" >>
APOS == << "&", "#", "0", "3", "9", ";" >>
BR == << "<", "b", "r", ">" >>

\* The five characters escapeHtml replaces.
Special == { "&", "<", ">", Q, "'" }

RECURSIVE ReplaceAll(_, _, _)
\* String.prototype.replace with a global one-character pattern; the string
\* is split in halves to keep the evaluation shallow.
ReplaceAll(s, c, rep) ==
    IF s = << >> THEN << >>
    ELSE IF Len(s) = 1 THEN (IF s[1] = c THEN rep ELSE s)
    ELSE LET h == Len(s) \div 2
         IN  ReplaceAll(SubSeq(s, 1, h), c, rep) \o ReplaceAll(SubSeq(s, h + 1, Len(s)), c, rep)

\* A mutant of escapeHtml: the ampersand pass runs last, so the entities the
\* other passes wrote are encoded again.
escapeHtmlAmpLast(s) ==
    ReplaceAll(ReplaceAll(ReplaceAll(ReplaceAll(ReplaceAll(s,
        "<", LT), ">", GT), Q, QUOT), "'", APOS), "&", AMP)

escapeHtml(s) ==
    ReplaceAll(ReplaceAll(ReplaceAll(ReplaceAll(ReplaceAll(s,
        "&", AMP), "<", LT), ">", GT), Q, QUOT), "'", APOS)

\* The 1-based positions of c in s.
Positions(s, c) == { i \in 1..Len(s) : s[i] = c }

\* String.prototype.indexOf for a one-character needle: 0-based, -1 if absent.
indexOf(s, c) ==
    LET ps == Positions(s, c)
    IN  IF ps = { } THEN -1 ELSE (CHOOSE i \in ps : \A j \in ps : i <= j) - 1

\* String.prototype.lastIndexOf for a one-character needle.
lastIndexOf(s, c) ==
    LET ps == Positions(s, c)
    IN  IF ps = { } THEN -1 ELSE (CHOOSE i \in ps : \A j \in ps : j <= i) - 1

Clamp(n, len) == IF n < 0 THEN 0 ELSE IF n > len THEN len ELSE n

\* String.prototype.substring: both indices are clamped to [0, length] and
\* swapped when the first is the greater.
substring(s, a, b) ==
    LET ca == Clamp(a, Len(s))
        cb == Clamp(b, Len(s))
        lo == IF ca <= cb THEN ca ELSE cb
        hi == IF ca <= cb THEN cb ELSE ca
    IN  SubSeq(s, lo + 1, hi)

StartsWith(s, p) == Len(s) >= Len(p) /\ SubSeq(s, 1, Len(p)) = p


(***************************************************************************)
(* JSON.parse (line 68), for the JSON grammar over the model's characters: *)
(* arrays, objects, strings with the escapes \" \\ \/ \n, unsigned         *)
(* integers and the literals null, true and false, with white space        *)
(* between tokens.  A parsed value is a record [t, s, keys, kids]:         *)
(* t is the type, s the characters of a string or a number, keys and kids  *)
(* the member names and values of an object, kids the elements of an array.*)
(***************************************************************************)
JV(t, s, keys, kids) == [t |-> t, s |-> s, keys |-> keys, kids |-> kids]
JNull == JV("null", << >>, << >>, << >>)
JUndefined == JV("undefined", << >>, << >>, << >>)

Digits == { "0", "1", "2", "3", "4", "5", "6", "7", "8", "9" }
IsWs(c) == c \in { " ", NL, "\t", "\r" }

\* The result of a parsing step: ok, the value read, the next position.
POk(v, i) == [ok |-> TRUE, v |-> v, i |-> i]
PFail == [ok |-> FALSE, v |-> JNull, i |-> 0]

RECURSIVE SkipWs(_, _)
SkipWs(s, i) == IF i <= Len(s) /\ IsWs(s[i]) THEN SkipWs(s, i + 1) ELSE i

RECURSIVE ParseChars(_, _, _)
\* The characters of a string literal after its opening quote.
ParseChars(s, i, acc) ==
    IF i > Len(s) THEN PFail
    ELSE IF s[i] = Q THEN POk(JV("string", acc, << >>, << >>), i + 1)
    ELSE IF s[i] \in { NL, "\t", "\r" } THEN PFail
    ELSE IF s[i] = BS
         THEN IF i + 1 > Len(s) THEN PFail
              ELSE IF s[i + 1] \in { Q, BS, "/" }
                   THEN ParseChars(s, i + 2, Append(acc, s[i + 1]))
              ELSE IF s[i + 1] = "n" THEN ParseChars(s, i + 2, Append(acc, NL))
              ELSE PFail
    ELSE ParseChars(s, i + 1, Append(acc, s[i]))

RECURSIVE ParseDigits(_, _, _)
ParseDigits(s, i, acc) ==
    IF i <= Len(s) /\ s[i] \in Digits
    THEN ParseDigits(s, i + 1, Append(acc, s[i]))
    ELSE POk(JV("number", acc, << >>, << >>), i)

\* A number: one digit, or several that do not start with 0.
ParseNumber(s, i) ==
    LET r == ParseDigits(s, i, << >>)
    IN  IF Len(r.v.s) > 1 /\ r.v.s[1] = "0" THEN PFail ELSE r

ParseLiteral(s, i) ==
    LET rest == SubSeq(s, i, Len(s))
    IN  IF StartsWith(rest, << "n", "u", "l", "l" >>) THEN POk(JNull, i + 4)
        ELSE IF StartsWith(rest, << "t", "r", "u", "e" >>)
             THEN POk(JV("true", << >>, << >>, << >>), i + 4)
        ELSE IF StartsWith(rest, << "f", "a", "l", "s", "e" >>)
             THEN POk(JV("false", << >>, << >>, << >>), i + 5)
        ELSE PFail

RECURSIVE ParseValue(_, _)
RECURSIVE ParseElements(_, _, _)
RECURSIVE ParseMembers(_, _, _, _)

\* The elements of an array after the first: s[i] is "," or "]".
ParseElements(s, i, acc) ==
    LET j == SkipWs(s, i)
    IN  IF j > Len(s) THEN PFail
        ELSE IF s[j] = "]" THEN POk(JV("array", << >>, << >>, acc), j + 1)
        ELSE IF s[j] = ","
             THEN LET r == ParseValue(s, SkipWs(s, j + 1))
                  IN  IF r.ok THEN ParseElements(s, r.i, Append(acc, r.v)) ELSE PFail
        ELSE PFail

\* One member of an object, "key": value, starting at s[i], and the rest.
ParseMembers(s, i, keys, kids) ==
    IF i > Len(s) \/ s[i] # Q THEN PFail
    ELSE LET k == ParseChars(s, i + 1, << >>)
         IN  IF ~k.ok THEN PFail
             ELSE LET c == SkipWs(s, k.i)
                  IN  IF c > Len(s) \/ s[c] # ":" THEN PFail
                      ELSE LET r == ParseValue(s, SkipWs(s, c + 1))
                           IN  IF ~r.ok THEN PFail
                               ELSE LET j == SkipWs(s, r.i)
                                        ks == Append(keys, k.v.s)
                                        vs == Append(kids, r.v)
                                    IN  IF j > Len(s) THEN PFail
                                        ELSE IF s[j] = "}"
                                             THEN POk(JV("object", << >>, ks, vs), j + 1)
                                        ELSE IF s[j] = ","
                                             THEN ParseMembers(s, SkipWs(s, j + 1), ks, vs)
                                        ELSE PFail

ParseValue(s, i) ==
    IF i > Len(s) THEN PFail
    ELSE IF s[i] = "["
         THEN LET j == SkipWs(s, i + 1)
              IN  IF j > Len(s) THEN PFail
                  ELSE IF s[j] = "]" THEN POk(JV("array", << >>, << >>, << >>), j + 1)
                  ELSE LET r == ParseValue(s, j)
                       IN  IF r.ok THEN ParseElements(s, r.i, << r.v >>) ELSE PFail
    ELSE IF s[i] = "{"
         THEN LET j == SkipWs(s, i + 1)
              IN  IF j > Len(s) THEN PFail
                  ELSE IF s[j] = "}" THEN POk(JV("object", << >>, << >>, << >>), j + 1)
                  ELSE ParseMembers(s, j, << >>, << >>)
    ELSE IF s[i] = Q THEN ParseChars(s, i + 1, << >>)
    ELSE IF s[i] \in Digits THEN ParseNumber(s, i)
    ELSE ParseLiteral(s, i)

\* JSON.parse: [ok |-> FALSE] stands for the SyntaxError it throws.
JSONparse(s) ==
    LET r == ParseValue(s, SkipWs(s, 1))
    IN  IF r.ok /\ SkipWs(s, r.i) = Len(s) + 1 THEN r ELSE PFail


(***************************************************************************)
(* new URL(uri).hostname (line 83), after the WHATWG URL parser with no    *)
(* base URL.  Not modelled: IPv4 and IPv6 literals, percent-decoding, IDNA *)
(* and lower-casing of the host (the model's URLs are lower-case names).   *)
(***************************************************************************)
Letters == { "a", "b", "c", "d", "e", "f", "g", "h", "i", "j", "k", "l", "m",
             "n", "o", "p", "q", "r", "s", "t", "u", "v", "w", "x", "y", "z",
             "A", "B", "C", "D", "E", "F", "G", "H", "I", "J", "K", "L", "M",
             "N", "O", "P", "Q", "R", "S", "T", "U", "V", "W", "X", "Y", "Z" }
SchemeChars == Letters \cup Digits \cup { "+", "-", "." }
SpecialSchemes == { << "h", "t", "t", "p" >>, << "h", "t", "t", "p", "s" >>,
                    << "w", "s" >>, << "w", "s", "s" >>, << "f", "t", "p" >> }
ForbiddenHost == { " ", "#", "/", ":", "<", ">", "?", "@", "[", BS, "]", "^",
                   "|", "%", NL, "\t", "\r" }

RECURSIVE TrimLeft(_)
TrimLeft(s) == IF s # << >> /\ IsWs(Head(s)) THEN TrimLeft(Tail(s)) ELSE s

RECURSIVE TrimRight(_)
TrimRight(s) ==
    IF s # << >> /\ IsWs(s[Len(s)]) THEN TrimRight(SubSeq(s, 1, Len(s) - 1)) ELSE s

RECURSIVE SpanWhile(_, _, _)
\* The first position at or after i whose character is not in set.
SpanWhile(s, i, set) ==
    IF i <= Len(s) /\ s[i] \in set THEN SpanWhile(s, i + 1, set) ELSE i

RECURSIVE SpanUntil(_, _, _)
\* The first position at or after i whose character is in set, or Len(s) + 1.
SpanUntil(s, i, set) ==
    IF i <= Len(s) /\ s[i] \notin set THEN SpanUntil(s, i + 1, set) ELSE i

UOk(h) == [ok |-> TRUE, hostname |-> h]
\* The TypeError `new URL` throws.
UFail == [ok |-> FALSE, hostname |-> << >>]

\* The host of an authority: after the credentials, before the port.
HostOf(auth, special) ==
    LET at == lastIndexOf(auth, "@")
        hp == SubSeq(auth, at + 2, Len(auth))
        colon == indexOf(hp, ":")
        host == IF colon = -1 THEN hp ELSE SubSeq(hp, 1, colon)
        port == IF colon = -1 THEN << >> ELSE SubSeq(hp, colon + 2, Len(hp))
    IN  IF \E k \in 1..Len(port) : port[k] \notin Digits THEN UFail
        ELSE IF \E k \in 1..Len(host) : host[k] \in ForbiddenHost THEN UFail
        ELSE IF special /\ host = << >> THEN UFail
        ELSE UOk(host)

UrlParse(uri) ==
    LET u == ReplaceAll(ReplaceAll(ReplaceAll(TrimRight(TrimLeft(uri)),
                 NL, << >>), "\t", << >>), "\r", << >>)
        e == SpanWhile(u, 1, SchemeChars)
    IN  IF u = << >> \/ u[1] \notin Letters \/ e > Len(u) \/ u[e] # ":" THEN UFail
        ELSE LET scheme == SubSeq(u, 1, e - 1)
                 special == scheme \in SpecialSchemes
                 rest == SubSeq(u, e + 1, Len(u))
                 a == IF special THEN SpanWhile(rest, 1, { "/", BS })
                      ELSE IF StartsWith(rest, << "/", "/" >>) THEN 3 ELSE 0
                 stop == IF special THEN { "/", BS, "?", "#" } ELSE { "/", "?", "#" }
                 z == IF a = 0 THEN 0 ELSE SpanUntil(rest, a, stop)
             IN  IF a = 0 THEN UOk(<< >>)
                 ELSE HostOf(SubSeq(rest, a, z - 1), special)

\* hostname.replace(/^www\./, '')
StripWww(h) ==
    IF StartsWith(h, << "w", "w", "w", "." >>) THEN SubSeq(h, 5, Len(h)) ELSE h

(***************************************************************************)
(* JavaScript's treatment of the parsed values.                            *)
(***************************************************************************)
RECURSIVE LastKey(_, _, _)
LastKey(keys, k, i) ==
    IF i < 1 THEN 0 ELSE IF keys[i] = k THEN i ELSE LastKey(keys, k, i - 1)

\* v[key] for v other than null and undefined (which throw a TypeError): a
\* member of an object (JSON.parse keeps the last of a repeated key), else
\* undefined.
Get(v, key) ==
    LET i == IF v.t = "object" THEN LastKey(v.keys, key, Len(v.keys)) ELSE 0
    IN  IF i = 0 THEN JUndefined ELSE v.kids[i]

Truthy(v) ==
    CASE v.t = "string" -> v.s # << >>
      [] v.t = "number" -> \E k \in 1..Len(v.s) : v.s[k] # "0"
      [] v.t \in { "true", "object", "array" } -> TRUE
      [] OTHER -> FALSE

RECURSIVE StringOf(_)
RECURSIVE Join(_)
\* Array.prototype.join(","): null and undefined elements give "".
Join(kids) ==
    IF kids = << >> THEN << >>
    ELSE (IF Head(kids).t \in { "null", "undefined" } THEN << >> ELSE StringOf(Head(kids)))
         \o (IF Len(kids) > 1 THEN << "," >> ELSE << >>) \o Join(Tail(kids))

\* String(v), as a template literal and the URL constructor apply it.
StringOf(v) ==
    CASE v.t \in { "string", "number" } -> v.s
      [] v.t = "true" -> << "t", "r", "u", "e" >>
      [] v.t = "false" -> << "f", "a", "l", "s", "e" >>
      [] v.t = "null" -> << "n", "u", "l", "l" >>
      [] v.t = "array" -> Join(v.kids)
      [] v.t = "object" -> << "[", "o", "b", "j", "e", "c", "t", " ",
                              "O", "b", "j", "e", "c", "t", "]" >>
      [] OTHER -> << "u", "n", "d", "e", "f", "i", "n", "e", "d" >>

(***************************************************************************)
(* The markup written into the results container.  A child is a record     *)
(* [kind, href, h3, p]: kind "item" for a news item with the texts put     *)
(* into its template (lines 85-90), or one of the paragraphs the code      *)
(* writes: "noclient" (line 37), "nonews" (line 71), "error" (line 104)    *)
(* and "raw" (line 98), whose p is the paragraph's content; "markup" is a  *)
(* paragraph the page's own markup may hold before the first call.         *)
(***************************************************************************)
Node(kind, href, h3, p) == [kind |-> kind, href |-> href, h3 |-> h3, p |-> p]
Msg(kind) == Node(kind, << >>, << >>, << >>)

TitleKey == << "t", "i", "t", "l", "e" >>
UrlKey == << "u", "r", "l" >>

\* The result of rendering: ok, or a thrown exception, and the container.
ROk(c) == [ok |-> TRUE, html |-> c]
RThrow == [ok |-> FALSE, html |-> << >>]

\* Lines 76-91 for one element of the array: the element is skipped, or a
\* news item is built, or an exception is thrown (ok is FALSE).
NewsItem(article) ==
    IF article.t \in { "null", "undefined" } THEN [ok |-> FALSE, skip |-> FALSE, node |-> Msg("none")]
    ELSE LET title == Get(article, TitleKey)
             uri == Get(article, UrlKey)
         IN  IF ~(Truthy(title) /\ Truthy(uri))
             THEN [ok |-> TRUE, skip |-> TRUE, node |-> Msg("none")]
             ELSE LET u == UrlParse(StringOf(uri))
                  IN  IF ~u.ok \/ title.t # "string"
                      THEN [ok |-> FALSE, skip |-> FALSE, node |-> Msg("none")]
                      ELSE [ok |-> TRUE, skip |-> FALSE,
                            node |-> Node("item", StringOf(uri), escapeHtml(title.s),
                                          escapeHtml(StripWww(u.hostname)))]

RECURSIVE RenderArticles(_, _)
\* The for loop of lines 75-93 over the rest of the array, from container cur.
RenderArticles(cur, articles) ==
    IF articles = << >> THEN ROk(cur)
    ELSE LET r == NewsItem(Head(articles))
         IN  IF ~r.ok THEN RThrow
             ELSE RenderArticles(IF r.skip THEN cur ELSE Append(cur, r.node),
                                 Tail(articles))

\* Line 98: the escaped response text with its line breaks as <br>.
Fallback(textResponse) ==
    << Node("raw", << >>, << >>, ReplaceAll(escapeHtml(textResponse), NL, BR)) >>

\* Lines 60-68: [ok |-> FALSE] stands for the Error of line 64 and for the
\* SyntaxError of JSON.parse.
Extract(textResponse) ==
    LET jsonStart == indexOf(textResponse, "[")
        jsonEnd == lastIndexOf(textResponse, "]")
    IN  IF jsonStart = -1 \/ jsonEnd = -1 THEN PFail
        ELSE JSONparse(substring(textResponse, jsonStart, jsonEnd + 1))


(***************************************************************************)
(* fetchAndDisplayNews after the await (lines 51-104), as a function of    *)
(* the container's children and of the service's answer.  An answer is     *)
(* [kind, text]: kind "rejected" for a rejected promise, kind "text" with  *)
(* the characters of response.text (none when it is empty or undefined).   *)
(***************************************************************************)
Rejected == [kind |-> "rejected", text |-> << >>]
TextResponse(s) == [kind |-> "text", text |-> s]
\* History values: no call returned in this step; a call returned at line 39.
NoReturn == [kind |-> "none", text |-> << >>]
NoClient == [kind |-> "noclient", text |-> << >>]

\* A mutant of ParseAndRender: the extraction runs outside the inner try, so
\* its exceptions reach the outer catch.
ParseAndRenderOuterCatch(cur, textResponse) ==
    LET e == Extract(textResponse)
    IN  IF ~e.ok THEN << Msg("error") >>
        ELSE IF e.v.t # "array" \/ e.v.kids = << >> THEN << Msg("nonews") >>
        ELSE LET r == RenderArticles(cur, e.v.kids)
             IN  IF r.ok THEN r.html ELSE Fallback(textResponse)

\* The inner try and its catch (lines 57-99).
ParseAndRender(cur, textResponse) ==
    LET e == Extract(textResponse)
    IN  IF ~e.ok THEN Fallback(textResponse)
        ELSE IF e.v.t # "array" \/ e.v.kids = << >> THEN << Msg("nonews") >>
        ELSE LET r == RenderArticles(cur, e.v.kids)
             IN  IF r.ok THEN r.html ELSE Fallback(textResponse)

\* The outer try and its catch (lines 42-104).
Settled(cur, response) ==
    IF response.kind = "rejected" \/ response.text = << >>
    THEN << Msg("error") >>
    ELSE ParseAndRender(cur, response.text)

(***************************************************************************)
(* The answers of the service.                                             *)
(***************************************************************************)
RECURSIVE Concat(_)
\* The strings of ss joined; ss is split in halves to keep the evaluation shallow.
Concat(ss) ==
    IF Len(ss) = 0 THEN << >>
    ELSE IF Len(ss) = 1 THEN ss[1]
    ELSE LET h == Len(ss) \div 2
         IN  Concat(SubSeq(ss, 1, h)) \o Concat(SubSeq(ss, h + 1, Len(ss)))

\* A JSON string literal for the characters s.
Quoted(s) ==
    << Q >> \o ReplaceAll(ReplaceAll(ReplaceAll(s, BS, << BS, BS >>),
                   Q, << BS, Q >>), NL, << BS, "n" >>) \o << Q >>

Obj(title, url) ==
    Concat(<< << "{" >>, Quoted(TitleKey), << ":" >>, Quoted(title), << "," >>,
              Quoted(UrlKey), << ":" >>, Quoted(url), << "}" >> >>)

ObjNoUrl(title) ==
    Concat(<< << "{" >>, Quoted(TitleKey), << ":" >>, Quoted(title), << "}" >> >>)

TitleA == << "A" >>
\* A headline with characters that escapeHtml replaces.
TitleB == << "<", "b", ">", "&", Q, "'" >>
UrlA == << "h", "t", "t", "p", "s", ":", "/", "/", "w", "w", "w", ".", "a", ".",
           "c", "o", "/", "x" >>
\* A link with a query string.
UrlB == << "h", "t", "t", "p", ":", "/", "/", "b", ".", "c", "o", "/", "?", "p",
           "&", "q", "=", Q, "<" >>
\* A link with no scheme.
UrlRel == << "a", ".", "c", "o", "/", "x" >>

ElemA == Obj(TitleA, UrlA)
ElemB == Obj(TitleB, UrlB)
ElemNoUrl == ObjNoUrl(TitleA)
ElemEmptyTitle == Obj(<< >>, UrlA)
ElemNull == << "n", "u", "l", "l" >>
ElemRelUrl == Obj(TitleA, UrlRel)

Elements == { ElemA, ElemB, ElemNoUrl, ElemEmptyTitle, ElemNull, ElemRelUrl }

RECURSIVE ArrayBody(_)
ArrayBody(es) ==
    IF es = << >> THEN << >>
    ELSE Head(es) \o (IF Len(es) > 1 THEN << "," >> ELSE << >>) \o ArrayBody(Tail(es))

ArrayText(es) == << "[" >> \o ArrayBody(es) \o << "]" >>

\* What the service may put around the array: nothing; prose and line
\* breaks; prose with brackets of its own.
Wrappers ==
    { [pre |-> << >>, post |-> << >>],
      [pre |-> << "T", "o", "p", ":", NL >>, post |-> << NL, "o", "k" >>],
      [pre |-> << "[", "1", "]", " " >>, post |-> << >>] }

JsonTexts ==
    { w.pre \o ArrayText(es) \o w.post :
        w \in Wrappers, es \in UNION { [1..k -> Elements] : k \in 0..MaxArticles } }

ProseChars == { "a", "[", "]", "<", NL, "5" }
ProseTexts == UNION { [1..k -> ProseChars] : k \in 0..MaxProse }

\* Every answer the model generates.
Responses == { Rejected } \cup { TextResponse(s) : s \in JsonTexts \cup ProseTexts }

\* The answers given to overlapping calls.
SampleResponses ==
    { Rejected,
      TextResponse(<< >>),
      TextResponse(<< "a", "<", NL >>),
      TextResponse(ArrayText(<< >>)),
      TextResponse(ArrayText(<< ElemA >>)),
      TextResponse(<< "T", "o", "p", ":", NL >> \o ArrayText(<< ElemB, ElemNoUrl >>)) }

(***************************************************************************)
(* The page.                                                               *)
(***************************************************************************)
Keys == { "Enter", " ", "Tab" }

\* Lines 8-26.  The classes the three elements start with and the first
\* content of the results container are the page markup's, which is not part
\* of the module: any combination of classes, no child or a paragraph.
Init ==
    /\ ai \in BOOLEAN
    /\ pointerEvents = (IF ai THEN "" ELSE "none")
    /\ opacity = (IF ai THEN "" ELSE "0.5")
    /\ homeHidden \in BOOLEAN
    /\ newsHidden \in BOOLEAN
    /\ loaderHidden \in BOOLEAN
    /\ newsResults \in { << >>, << Msg("markup") >> }
    /\ inFlight = 0
    /\ calls = 0
    /\ activations = 0
    /\ settledSince = FALSE
    /\ overlapped = FALSE
    /\ returned = NoReturn
    /\ unsafe = << >>
    /\ escaped = [done |-> FALSE, out |-> << >>]

\* A mutant of showLoading: the class is added where it is to be removed.
showLoadingSwapped(isLoading) == loaderHidden' = isLoading

showLoading(isLoading) == loaderHidden' = ~isLoading

\* fetchAndDisplayNews up to its return at line 39 or its suspension at the
\* await of line 43.
FetchStart ==
    IF ~ai
    THEN /\ newsResults' = << Msg("noclient") >>
         /\ showLoading(FALSE)
         /\ returned' = NoClient
         /\ UNCHANGED << inFlight, calls, overlapped >>
    ELSE /\ newsResults' = << >>
         /\ showLoading(TRUE)
         /\ inFlight' = inFlight + 1
         /\ calls' = calls + 1
         /\ overlapped' = (overlapped \/ inFlight > 0)
         /\ returned' = NoReturn

\* A mutant of FetchResume: the loader is hidden at the end of the try block
\* instead of in a finally clause, so the paths that leave the block early
\* (the return of line 72, the two catch clauses) keep it.
FetchResumeNoFinally(response) ==
    /\ inFlight > 0
    /\ inFlight' = inFlight - 1
    /\ newsResults' = Settled(newsResults, response)
    /\ IF \E i \in 1..Len(Settled(newsResults, response)) :
              Settled(newsResults, response)[i].kind = "item"
       THEN showLoading(FALSE)
       ELSE UNCHANGED loaderHidden
    /\ returned' = response
    /\ settledSince' = TRUE
    /\ UNCHANGED << ai, pointerEvents, opacity, homeHidden, newsHidden, calls,
                    activations, overlapped, unsafe, escaped >>

\* A mutant of FetchResume: a rejected call is issued again.
FetchResumeRetry(response) ==
    /\ inFlight > 0
    /\ IF response.kind = "rejected"
       THEN /\ calls' = calls + 1
            /\ UNCHANGED << inFlight, newsResults, loaderHidden >>
       ELSE /\ inFlight' = inFlight - 1
            /\ newsResults' = Settled(newsResults, response)
            /\ showLoading(FALSE)
            /\ UNCHANGED calls
    /\ returned' = response
    /\ settledSince' = TRUE
    /\ UNCHANGED << ai, pointerEvents, opacity, homeHidden, newsHidden,
                    activations, overlapped, unsafe, escaped >>

\* fetchAndDisplayNews from the await to its return: one suspended call
\* resumes with the service's answer.
FetchResume(response) ==
    /\ inFlight > 0
    /\ inFlight' = inFlight - 1
    /\ newsResults' = Settled(newsResults, response)
    /\ showLoading(FALSE)
    /\ returned' = response
    /\ settledSince' = TRUE
    /\ UNCHANGED << ai, pointerEvents, opacity, homeHidden, newsHidden, calls,
                    activations, overlapped, unsafe, escaped >>

showNewsView ==
    /\ activations < MaxActivations
    /\ homeHidden' = TRUE
    /\ newsHidden' = FALSE
    /\ FetchStart
    /\ activations' = activations + 1
    /\ settledSince' = FALSE
    /\ UNCHANGED << ai, pointerEvents, opacity, unsafe, escaped >>

showHomeView ==
    /\ newsHidden' = TRUE
    /\ homeHidden' = FALSE
    /\ returned' = NoReturn
    /\ UNCHANGED << ai, pointerEvents, opacity, loaderHidden, newsResults,
                    inFlight, calls, activations, settledSince, overlapped,
                    unsafe, escaped >>

\* Line 155: a pointer click reaches the card unless its pointer-events is none.
ClickCard == pointerEvents # "none" /\ showNewsView

\* Lines 159-163: a key pressed with the focus on the card.
KeydownCard ==
    \E key \in Keys :
        IF key = "Enter" \/ key = " " THEN showNewsView ELSE UNCHANGED vars

\* Line 156.
ClickBack == showHomeView

\* The promise of line 43 settles for one of the suspended calls.
ServiceSettles == inFlight > 0 /\ \E response \in SampleResponses : FetchResume(response)

Next == ClickCard \/ KeydownCard \/ ClickBack \/ ServiceSettles

Spec == Init /\ [][Next]_vars

(***************************************************************************)
(* One call at a time, with every generated answer: the user waits for a   *)
(* call to return before activating the news view again.                   *)
(***************************************************************************)
ClickCardIdle == inFlight = 0 /\ ClickCard
KeydownCardIdle == inFlight = 0 /\ KeydownCard
ServiceAnswers == inFlight > 0 /\ \E response \in Responses : FetchResume(response)

NextPayload == ClickCardIdle \/ KeydownCardIdle \/ ClickBack \/ ServiceAnswers

SpecPayload == Init /\ [][NextPayload]_vars

(***************************************************************************)
(* escapeHtml on its own, for every argument up to MaxEscLen characters.   *)
(***************************************************************************)
EscChars == Special \cup { "a", ";" }

InitEscape ==
    /\ ai = TRUE
    /\ pointerEvents = ""
    /\ opacity = ""
    /\ homeHidden = FALSE
    /\ newsHidden = TRUE
    /\ loaderHidden = TRUE
    /\ newsResults = << >>
    /\ inFlight = 0
    /\ calls = 0
    /\ activations = 0
    /\ settledSince = FALSE
    /\ overlapped = FALSE
    /\ returned = NoReturn
    /\ unsafe \in UNION { [1..k -> EscChars] : k \in 0..MaxEscLen }
    /\ escaped = [done |-> FALSE, out |-> << >>]

CallEscapeHtml ==
    /\ ~escaped.done
    /\ escaped' = [done |-> TRUE, out |-> escapeHtml(unsafe)]
    /\ UNCHANGED << ai, pointerEvents, opacity, homeHidden, newsHidden,
                    loaderHidden, newsResults, inFlight, calls, activations,
                    settledSince, overlapped, returned, unsafe >>

NextEscape == CallEscapeHtml

SpecEscape == InitEscape /\ [][NextEscape]_vars


(***************************************************************************)
(* Properties.                                                             *)
(***************************************************************************)
Entities == { AMP, LT, GT, QUOT, APOS }

At(s, i, e) == i + Len(e) - 1 <= Len(s) /\ SubSeq(s, i, i + Len(e) - 1) = e

\* No character of Special stands in s except the "&" that opens one of the
\* five entities.
WellEscaped(s) ==
    \A i \in 1..Len(s) :
        /\ s[i] \in Special \ { "&" } => FALSE
        /\ s[i] = "&" => \E e \in Entities : At(s, i, e)

\* As WellEscaped, for markup in which <br> may stand.
WellEscapedWithBreaks(s) ==
    \A i \in 1..Len(s) :
        /\ s[i] \in { Q, "'" } => FALSE
        /\ s[i] = "<" => At(s, i, BR)
        /\ s[i] = ">" => i >= 4 /\ At(s, i - 3, BR)
        /\ s[i] = "&" => \E e \in Entities : At(s, i, e)

EntityOf(c) ==
    CASE c = "&" -> AMP
      [] c = "<" -> LT
      [] c = ">" -> GT
      [] c = Q -> QUOT
      [] c = "'" -> APOS
      [] OTHER -> << c >>

\* Each character of s replaced by its entity, in order.
EntityPerChar(s) == Concat([i \in 1..Len(s) |-> EntityOf(s[i])])

\* Each character of s as the fallback shows it.
DisplayPerChar(s) ==
    Concat([i \in 1..Len(s) |-> IF s[i] = NL THEN BR ELSE EntityOf(s[i])])

Items(c) == SelectSeq(c, LAMBDA n : n.kind = "item")

\* A record with a non-empty title and a non-empty url.
Usable(v) == v.t = "object" /\ Truthy(Get(v, TitleKey)) /\ Truthy(Get(v, UrlKey))

\* A call resumed and returned in the step that led to this state.
Resumed == returned.kind \in { "rejected", "text" }

\* The parsed array of the answer the returning call received, if it is one.
ParsedArray ==
    /\ returned.kind = "text"
    /\ returned.text # << >>
    /\ Extract(returned.text).ok
    /\ Extract(returned.text).v.t = "array"

Records == Extract(returned.text).v.kids

\* C1: when a call of fetchAndDisplayNews has returned the loader is hidden,
\* on every path, and once calls have been made and none is suspended
\* (overlapping calls included) the loader is hidden.
C1_LoaderHiddenWhenIdle ==
    /\ returned.kind # "none" => loaderHidden
    /\ (activations > 0 /\ inFlight = 0) => loaderHidden

\* Two overlapping calls have both returned, the last with a rejection.
C1_Witness ==
    overlapped /\ inFlight = 0 /\ returned.kind = "rejected" /\ loaderHidden

\* C2, as claimed: once the news view has been activated, the loader is
\* visible if and only if a service call is in flight.
C2_VisibleIffInFlight ==
    activations > 0 => (~loaderHidden <=> inFlight > 0)

\* C2, amended: once the news view has been activated, the loader is visible
\* if and only if a service call is in flight and no call has returned since
\* the last activation.
C2_VisibleUntilFirstReturn ==
    activations > 0 => (~loaderHidden <=> (inFlight > 0 /\ ~settledSince))

\* A call is in flight with the loader hidden by an earlier call's return.
C2_Witness == inFlight > 0 /\ settledSince /\ loaderHidden /\ overlapped

\* C3: every text put into the container's markup is escaped: the href, the
\* heading and the label of a news item, and the fallback's text.
C3_AllInsertedTextEscaped ==
    \A i \in 1..Len(newsResults) :
        LET n == newsResults[i]
        IN  /\ n.kind = "item" =>
                WellEscaped(n.href) /\ WellEscaped(n.h3) /\ WellEscaped(n.p)
            /\ n.kind = "raw" => WellEscapedWithBreaks(n.p)

\* C4: without a client no event activates the news view.
C4_NoActivationWithoutClient == ~ai => activations = 0

\* C5: an answer that parses to an array with no usable record shows the
\* "no trending news" message.
C5_NoUsableRecordShowsNoNews ==
    (ParsedArray /\ \A k \in 1..Len(Records) : ~Usable(Records[k]))
        => newsResults = << Msg("nonews") >>

\* C6: an answer that parses to an array of at least one record shows one
\* entry per usable record, in the array's order, whatever the others are.
C6_UsableRecordsAllRendered ==
    (ParsedArray /\ Len(Records) >= 1) =>
        LET usable == SelectSeq(Records, Usable)
            items == Items(newsResults)
        IN  /\ Len(items) = Len(usable)
            /\ \A k \in 1..Len(usable) :
                   items[k].h3 = EntityPerChar(StringOf(Get(usable[k], TitleKey)))

\* C7: a non-empty answer with no "[" or no "]", or whose slice does not
\* parse, ends with the container showing the escaped text with its line
\* breaks as <br>; the generic error shows only for an empty answer or a
\* rejected call.
C7_MalformedShowsRawText ==
    /\ (returned.kind = "text" /\ returned.text # << >> /\ ~Extract(returned.text).ok)
           => newsResults = << Node("raw", << >>, << >>, DisplayPerChar(returned.text)) >>
    /\ (Resumed /\ \E i \in 1..Len(newsResults) : newsResults[i].kind = "error")
           => (returned.kind = "rejected" \/ returned.text = << >>)

\* An answer with both brackets whose slice does not parse was shown raw.
C7_Witness ==
    /\ returned.kind = "text"
    /\ indexOf(returned.text, "[") # -1
    /\ lastIndexOf(returned.text, "]") # -1
    /\ indexOf(returned.text, "<") # -1
    /\ ~Extract(returned.text).ok
    /\ newsResults[1].kind = "raw"

\* C8: the calls issued are the activations made with a client, and none
\* without one, where the explanatory message is shown instead.
C8_OneCallPerActivation ==
    /\ calls = (IF ai THEN activations ELSE 0)
    /\ returned.kind = "noclient" => newsResults = << Msg("noclient") >>

\* Two activations, two calls, the last of them rejected and not retried.
C8_Witness ==
    ai /\ activations = 2 /\ calls = 2 /\ inFlight = 0 /\ returned.kind = "rejected"

\* C9: when the last of the suspended calls returns, the container holds
\* what that call rendered and nothing else.
C9_LastRenderWins ==
    (Resumed /\ inFlight = 0) => newsResults = Settled(<< >>, returned)

\* C10: the result of escapeHtml is its argument with each of the five
\* characters replaced by its entity, in order; none of the five is left
\* raw; an argument without them is returned as it is.
C10_EscapeHtml ==
    escaped.done =>
        /\ escaped.out = EntityPerChar(unsafe)
        /\ WellEscaped(escaped.out)
        /\ (\A i \in 1..Len(unsafe) : unsafe[i] \notin Special) => escaped.out = unsafe

\* An argument with an ampersand and another of the five was escaped.
C10_Witness ==
    /\ escaped.done
    /\ \E i, j \in 1..Len(unsafe) : unsafe[i] = "&" /\ unsafe[j] \in { "<", Q }

=============================================================================
